---- MODULE Spec2Model ----
(***************************************************************************)
(* A model of the pak ("d2p") reader: the byte-level codecs of             *)
(* src/src/raw.rs, and the link-following merge and the lazy chunk reads   *)
(* of src/src/read.rs (src/src/lib.rs holds the same reader in one file,   *)
(* with the two table reads in the other order; the variable impl selects  *)
(* which of the two is running).                                           *)
(*                                                                         *)
(* A stream is a sequence of bytes with a position.  Strings and paths are *)
(* sequences of character codes.  A u64 is four 16-bit limbs, the most     *)
(* significant first, so that sign extension and 64-bit wrap-around are    *)
(* those of the code; an i32 is an integer in -2^31 .. 2^31-1.             *)
(***************************************************************************)
EXTENDS Integers, Sequences, FiniteSets, TLC

VARIABLES
    impl,       \* "read": read.rs + raw.rs,  "lib": lib.rs
    initial,    \* the path the caller gave to merge
    fs,         \* the files the stream factory has shown so far: path -> segment or NoFile
    pc,         \* the position of merge: open, header, info, chunks, props, insert, done, failed, panicked
    links,      \* the queue of pending paths (VecDeque)
    calls,      \* every path handed to the stream factory, in order
    streams,    \* the streams the factory returned, in order: [path, pos, borrowed]
    stage,      \* the tables of the segment being loaded: [info, chunks, properties]
    merge,      \* the MergeReader being built: [chunks, properties]
    result,     \* what merge returned: NoResult, [ok |-> TRUE] or [ok |-> FALSE, err]
    ret,        \* what the last call on the MergeReader returned
    fresh,      \* history: the streams as they were when merge returned
    reads       \* history: the names read_file has been called with

vars == <<impl, initial, fs, pc, links, calls, streams, stage, merge, result, ret, fresh, reads>>

(***************************************************************************)
(* Bounds of the model.                                                    *)
(***************************************************************************)
\* The stream factory is called at most MaxLoads times in one merge.
MaxLoads == 4

(***************************************************************************)
(* Integers of fixed width.                                                *)
(***************************************************************************)
LimbBase == 256 * 256
FarPos == LimbBase              \* every stream position beyond the longest stream

\* `x as u64` for an i32 x: sign extension.
i32_as_u64(v) ==
    LET ext == IF v < 0 THEN LimbBase - 1 ELSE 0
    IN  <<ext, ext, (v \div LimbBase) % LimbBase, v % LimbBase>>

\* `x as i32` for a u64 x: the low 32 bits, read as two's complement.
u64_as_i32(u) ==
    IF u[3] >= LimbBase \div 2
        THEN (u[3] - LimbBase) * LimbBase + u[4]
        ELSE u[3] * LimbBase + u[4]

\* x + y on u64: the wrapped sum and whether it overflowed.
u64_add(x, y) ==
    LET s4 == x[4] + y[4]
        s3 == x[3] + y[3] + (s4 \div LimbBase)
        s2 == x[2] + y[2] + (s3 \div LimbBase)
        s1 == x[1] + y[1] + (s2 \div LimbBase)
    IN  [value |-> <<s1 % LimbBase, s2 % LimbBase, s3 % LimbBase, s4 % LimbBase>>,
         overflow |-> s1 >= LimbBase]

\* The stream position a u64 names; every position past 2^16 is FarPos.
PosOf(u) == IF u[1] = 0 /\ u[2] = 0 /\ u[3] = 0 THEN u[4] ELSE FarPos

(***************************************************************************)
(* The byte codec (byteorder_extended): big-endian integers and strings    *)
(* with a 2-byte length.  A read returns [ok, val, pos] or [ok, err, pos]. *)
(***************************************************************************)
Ok(v, p) == [ok |-> TRUE, val |-> v, pos |-> p]
Err(e, p) == [ok |-> FALSE, err |-> e, pos |-> p]

\* Where a failed read_exact leaves the stream: at its end.
EofPos(s, pos) == IF pos > Len(s) THEN pos ELSE Len(s)

read_u8(s, pos) ==
    IF pos + 1 <= Len(s) THEN Ok(s[pos + 1], pos + 1)
    ELSE Err("UnexpectedEof", EofPos(s, pos))

read_u16(s, pos) ==
    IF pos + 2 <= Len(s) THEN Ok(s[pos + 1] * 256 + s[pos + 2], pos + 2)
    ELSE Err("UnexpectedEof", EofPos(s, pos))

read_i32(s, pos) ==
    IF pos + 4 <= Len(s)
        THEN LET b0 == s[pos + 1]
                 hi == IF b0 >= 128 THEN b0 - 256 ELSE b0
             IN  Ok(((hi * 256 + s[pos + 2]) * 256 + s[pos + 3]) * 256 + s[pos + 4], pos + 4)
        ELSE Err("UnexpectedEof", EofPos(s, pos))

\* String::from_utf8: whether the bytes from index i on are well-formed UTF-8.
RECURSIVE IsUtf8(_, _)
IsUtf8(b, i) ==
    LET n == Len(b)
        Cont(j) == j <= n /\ b[j] >= 128 /\ b[j] <= 191
        In(j, lo, hi) == j <= n /\ b[j] >= lo /\ b[j] <= hi
    IN  IF i > n THEN TRUE
        ELSE IF b[i] < 128 THEN IsUtf8(b, i + 1)
        ELSE IF b[i] >= 194 /\ b[i] <= 223 THEN Cont(i + 1) /\ IsUtf8(b, i + 2)
        ELSE IF b[i] = 224 THEN In(i + 1, 160, 191) /\ Cont(i + 2) /\ IsUtf8(b, i + 3)
        ELSE IF b[i] = 237 THEN In(i + 1, 128, 159) /\ Cont(i + 2) /\ IsUtf8(b, i + 3)
        ELSE IF b[i] >= 225 /\ b[i] <= 239 THEN Cont(i + 1) /\ Cont(i + 2) /\ IsUtf8(b, i + 3)
        ELSE IF b[i] = 240
            THEN In(i + 1, 144, 191) /\ Cont(i + 2) /\ Cont(i + 3) /\ IsUtf8(b, i + 4)
        ELSE IF b[i] >= 241 /\ b[i] <= 243
            THEN Cont(i + 1) /\ Cont(i + 2) /\ Cont(i + 3) /\ IsUtf8(b, i + 4)
        ELSE IF b[i] = 244
            THEN In(i + 1, 128, 143) /\ Cont(i + 2) /\ Cont(i + 3) /\ IsUtf8(b, i + 4)
        ELSE FALSE

read_string(s, pos) ==
    LET n == read_u16(s, pos)
    IN  IF ~n.ok THEN n
        ELSE IF n.pos + n.val > Len(s) THEN Err("UnexpectedEof", EofPos(s, n.pos))
        ELSE LET str == SubSeq(s, n.pos + 1, n.pos + n.val)
             IN  IF IsUtf8(str, 1) THEN Ok(str, n.pos + n.val)
                 ELSE Err("InvalidData", n.pos + n.val)

write_u8(v) == <<v % 256>>

write_i32(v) ==
    <<(v \div (256 * 256 * 256)) % 256, (v \div (256 * 256)) % 256, (v \div 256) % 256, v % 256>>

write_string(str) == <<Len(str) \div 256, Len(str) % 256>> \o str

(***************************************************************************)
(* Seeks on a std::fs::File.                                               *)
(***************************************************************************)
\* seek(SeekFrom::Start(u)): lseek takes a signed offset, so u >= 2^63 fails.
SeekStart(u) ==
    IF u[1] >= LimbBase \div 2 THEN Err("InvalidInput", 0) ELSE Ok(0, PosOf(u))

\* seek(SeekFrom::End(d)) for d <= 0: fails before the start of the stream.
SeekEnd(s, d) ==
    IF Len(s) + d < 0 THEN Err("InvalidInput", 0) ELSE Ok(0, Len(s) + d)

(***************************************************************************)
(* Maps (HashMap): functions; insert overwrites.                           *)
(***************************************************************************)
EmptyMap == <<>>

Insert(m, k, v) == [x \in DOMAIN m \cup {k} |-> IF x = k THEN v ELSE m[x]]

(***************************************************************************)
(* raw.rs: the header, the records of the two tables and the footer.       *)
(***************************************************************************)
LinkKey == <<108, 105, 110, 107>>       \* "link"

\* `if read_u8()? != 2 && read_u8()? != 1 { Err } else { Ok }`
read_header(s, pos) ==
    LET first == read_u8(s, pos)
    IN  IF ~first.ok THEN first
        ELSE IF first.val # 2
            THEN LET second == read_u8(s, first.pos)
                 IN  IF ~second.ok THEN second
                     ELSE IF second.val # 1 THEN Err("CorruptedPakHeader", second.pos)
                     ELSE Ok(0, second.pos)
        ELSE Ok(0, first.pos)

write_header == write_u8(2) \o write_u8(1)

Property(key, value) == [key |-> key, value |-> value]

Property_from(s, pos) ==
    LET key == read_string(s, pos)
    IN  IF ~key.ok THEN key
        ELSE LET value == read_string(s, key.pos)
             IN  IF ~value.ok THEN value
                 ELSE Ok(Property(key.val, value.val), value.pos)

Property_write(p) == write_string(p.key) \o write_string(p.value)

Chunk(full_file_name, offset, size) ==
    [full_file_name |-> full_file_name, offset |-> offset, size |-> size]

Chunk_from(s, pos) ==
    LET name == read_string(s, pos)
    IN  IF ~name.ok THEN name
        ELSE LET offset == read_i32(s, name.pos)
             IN  IF ~offset.ok THEN offset
                 ELSE LET size == read_i32(s, offset.pos)
                      IN  IF ~size.ok THEN size
                          ELSE Ok(Chunk(name.val, offset.val, size.val), size.pos)

Chunk_write(c) == write_string(c.full_file_name) \o write_i32(c.offset) \o write_i32(c.size)

\* `for _ in 0..count { let prop = Property::from(reader)?; properties.insert(..) }`
RECURSIVE PropertyLoop(_, _, _, _)
PropertyLoop(s, pos, count, properties) ==
    IF count <= 0 THEN Ok(properties, pos)
    ELSE LET prop == Property_from(s, pos)
         IN  IF ~prop.ok THEN prop
             ELSE PropertyLoop(s, prop.pos, count - 1, Insert(properties, prop.val.key, prop.val))

\* `for _ in 0..count { let chunk = Chunk::from(reader)?; chunks.insert(..) }`
RECURSIVE ChunkLoop(_, _, _, _)
ChunkLoop(s, pos, count, chunks) ==
    IF count <= 0 THEN Ok(chunks, pos)
    ELSE LET chunk == Chunk_from(s, pos)
         IN  IF ~chunk.ok THEN chunk
             ELSE ChunkLoop(s, chunk.pos, count - 1,
                            Insert(chunks, chunk.val.full_file_name, chunk.val))

\* Property::read.  reserve: raw.rs allocates HashMap::with_capacity(count as usize)
\* first, which panics (capacity overflow) for a negative count; lib.rs does not.
Property_read(s, pos, info, reserve) ==
    IF reserve /\ info.properties_count < 0 THEN Err("Panic", pos)
    ELSE LET to == SeekStart(info.properties_offset)
         IN  IF ~to.ok THEN Err(to.err, pos)
             ELSE PropertyLoop(s, to.pos, info.properties_count, EmptyMap)

\* Chunk::read, as Property::read.
Chunk_read(s, pos, info, reserve) ==
    IF reserve /\ info.chunks_count < 0 THEN Err("Panic", pos)
    ELSE LET to == SeekStart(info.chunks_offset)
         IN  IF ~to.ok THEN Err(to.err, pos)
             ELSE ChunkLoop(s, to.pos, info.chunks_count, EmptyMap)

\* Start position to read Info: SeekFrom::End(-24).
INFO_OFFSET == -24

RECURSIVE ReadInts(_, _, _)
ReadInts(s, pos, n) ==
    IF n = 0 THEN Ok(<<>>, pos)
    ELSE LET x == read_i32(s, pos)
         IN  IF ~x.ok THEN x
             ELSE LET rest == ReadInts(s, x.pos, n - 1)
                  IN  IF ~rest.ok THEN rest ELSE Ok(<<x.val>> \o rest.val, rest.pos)

Info(offset, size, chunks_offset, chunks_count, properties_offset, properties_count) ==
    [offset |-> offset, size |-> size,
     chunks_offset |-> chunks_offset, chunks_count |-> chunks_count,
     properties_offset |-> properties_offset, properties_count |-> properties_count]

\* Info::from: the six i32 of the footer, the three offsets cast `as u64`.
Info_from(s, pos) ==
    LET to == SeekEnd(s, INFO_OFFSET)
    IN  IF ~to.ok THEN Err(to.err, pos)
        ELSE LET f == ReadInts(s, to.pos, 6)
             IN  IF ~f.ok THEN f
                 ELSE Ok(Info(i32_as_u64(f.val[1]), f.val[2], i32_as_u64(f.val[3]),
                              f.val[4], i32_as_u64(f.val[5]), f.val[6]), f.pos)

\* Info::write: the three offsets cast `as i32`.
Info_write(info) ==
    write_i32(u64_as_i32(info.offset)) \o write_i32(info.size)
    \o write_i32(u64_as_i32(info.chunks_offset)) \o write_i32(info.chunks_count)
    \o write_i32(u64_as_i32(info.properties_offset)) \o write_i32(info.properties_count)

(***************************************************************************)
(* Segment files.  A segment is described by what its writer was given     *)
(* (hdr, base, data, props, chunks) and by how it is damaged (counts that  *)
(* differ from the tables, a cut); its bytes are laid out as the header,   *)
(* the data, the property table, the chunk table and the footer.           *)
(***************************************************************************)
RECURSIVE Concat(_)
Concat(ss) == IF ss = <<>> THEN <<>> ELSE Head(ss) \o Concat(Tail(ss))

Layout(seg) ==
    LET ptab == Concat([i \in 1..Len(seg.props) |-> Property_write(seg.props[i])])
        ctab == Concat([i \in 1..Len(seg.chunks) |-> Chunk_write(seg.chunks[i])])
        poff == Len(seg.hdr) + Len(seg.data)
        coff == poff + Len(ptab)
        info == Info(i32_as_u64(seg.base), Len(seg.data), i32_as_u64(coff), seg.ccount,
                     i32_as_u64(poff), seg.pcount)
    IN  seg.hdr \o seg.data \o ptab \o ctab \o Info_write(info)

Bytes(seg) ==
    IF seg.keep < 0 THEN Layout(seg) ELSE SubSeq(Layout(seg), 1, seg.keep)

Seg(hdr, base, data, props, chunks) ==
    [hdr |-> hdr, base |-> base, data |-> data, props |-> props, chunks |-> chunks,
     pcount |-> Len(props), ccount |-> Len(chunks), keep |-> -1]

NoFile == [missing |-> TRUE]

(***************************************************************************)
(* The inputs: paths, link values, chunk names and segment files.          *)
(***************************************************************************)
\* "A", "d/A", "c/d/A"
InitialPaths == {<<65>>, <<100, 47, 65>>, <<99, 47, 100, 47, 65>>}

NameA == <<97>>
NameB == <<98>>
NameC == <<99>>
NameZ == <<122>>
KeyK == <<107>>
Names == {NameA, NameB, NameC, NameZ}

Data1 == <<10, 11, 12, 13>>
Data2 == <<20, 21, 22>>

\* One segment, two chunks, no property.
Plain == Seg(write_header, 2, Data1, <<>>, <<Chunk(NameA, 0, 2), Chunk(NameB, 2, 2)>>)
\* Links to "B".
LinkB ==
    Seg(write_header, 2, Data1, <<Property(LinkKey, <<66>>), Property(KeyK, <<49>>)>>,
        <<Chunk(NameA, 0, 2), Chunk(NameB, 2, 2)>>)
\* Links to "e/B", a link value with a directory of its own.
LinkEB == Seg(write_header, 2, Data1, <<Property(LinkKey, <<101, 47, 66>>)>>, <<Chunk(NameC, 3, 1)>>)
\* Links to "A".
LinkA == Seg(write_header, 2, Data2, <<Property(KeyK, <<50>>), Property(LinkKey, <<65>>)>>,
             <<Chunk(NameA, 1, 1)>>)
\* The last segment of a chain: no link.
LastSeg == Seg(write_header, 2, Data2, <<Property(KeyK, <<51>>)>>,
            <<Chunk(NameB, 1, 2), Chunk(NameC, 0, 1)>>)
\* Headers other than (2, 1).
Header12 == [Plain EXCEPT !.hdr = <<1, 2>>]
Header20 == [Plain EXCEPT !.hdr = <<2, 0>>]
Header31 == [LinkB EXCEPT !.hdr = <<3, 1>>]
\* A footer that declares one property more than the table holds.
Inflated == [LastSeg EXCEPT !.pcount = 2]
\* A footer that declares one chunk more than the table holds.
InflatedChunks == [LastSeg EXCEPT !.ccount = 3]
\* A chunk longer than what the stream holds from its offset on.
ShortData == Seg(write_header, 2, Data1, <<>>, <<Chunk(NameA, 2, 50)>>)
\* Files too short for a footer, or for a header.
OnlyHeader == [Plain EXCEPT !.keep = 2]
Empty == [Plain EXCEPT !.keep = 0]
\* Negative 32-bit fields.
NegOffset == Seg(write_header, 2, Data1, <<>>, <<Chunk(NameA, -1, 2), Chunk(NameB, 1, -1)>>)
NegBase == Seg(write_header, -2, Data1, <<>>, <<Chunk(NameA, 4, 2)>>)
NegCount == [Plain EXCEPT !.pcount = -1]
\* A chunk whose absolute offset, 2 + (2^64 - 3), is one no seek accepts.
FarOffset == Seg(write_header, 2, Data1, <<>>, <<Chunk(NameA, -3, 2), Chunk(NameB, 1, 1)>>)

Files ==
    {Plain, LinkB, LinkEB, LinkA, LastSeg, Header12, Header20, Header31, Inflated, InflatedChunks,
     ShortData, OnlyHeader, Empty, NegOffset, NegBase, NegCount,
     FarOffset}

Impls == {"read", "lib"}

(***************************************************************************)
(* read.rs: the link resolver, the chunk accessor and the merge.           *)
(***************************************************************************)
Slash == <<47>>

\* path.rfind('/'): the last index of '/', 0 for None.
rfind(path) ==
    LET at == {i \in 1..Len(path) : <<path[i]>> = Slash}
    IN  IF at = {} THEN 0 ELSE CHOOSE i \in at : \A j \in at : j <= i

\* set_file_name that cuts the path at its first '/' (find for rfind).
set_file_name_first(path, file_name) ==
    LET at == {i \in 1..Len(path) : <<path[i]>> = Slash}
    IN  IF at = {} THEN file_name
        ELSE SubSeq(path, 1, (CHOOSE i \in at : \A j \in at : i <= j) - 1) \o Slash \o file_name

\* Replaces the file name (with extension) of `path` by `file_name`.
set_file_name(path, file_name) ==
    LET last_index == rfind(path)
    IN  IF last_index = 0 THEN file_name
        ELSE SubSeq(path, 1, last_index - 1) \o Slash \o file_name

MergedChunk(offset, size, reader) == [offset |-> offset, size |-> size, reader |-> reader]

\* The bytes of the stream a reader (an index of streams) reads.
Content(files, strs, reader) == Bytes(files[strs[reader].path])

Zeros(n) == [i \in 1..n |-> 0]

\* `self.reader.borrow_mut()` and the drop of the RefMut at the end of its scope.
Borrow(strs, reader) == [strs EXCEPT ![reader].borrowed = TRUE]
Release(strs, reader) == [strs EXCEPT ![reader].borrowed = FALSE]

\* data without the seek: one `read` from wherever the stream stands.
data_unseeked(chunk, files, strs) ==
    LET s == Content(files, strs, chunk.reader)
        size == PosOf(chunk.size)
        at == strs[chunk.reader].pos
        left == IF at >= Len(s) THEN 0 ELSE Len(s) - at
        n == IF size <= left THEN size ELSE left
    IN  [res |-> [ok |-> TRUE, val |-> SubSeq(s, at + 1, at + n) \o Zeros(size - n)],
         streams |-> [strs EXCEPT ![chunk.reader].pos = at + n]]

\* MergedChunk::data: a zeroed buffer of `size` bytes, then, under the exclusive
\* borrow of the shared stream, seek and one `read` into it.  Returns the result
\* and the streams after the call.  The allocation of 2^63 bytes or more panics,
\* and so does borrow_mut on a stream that is borrowed.
data(chunk, files, strs) ==
    IF chunk.size[1] >= LimbBase \div 2 \/ strs[chunk.reader].borrowed
        THEN [res |-> [ok |-> FALSE, err |-> "Panic"], streams |-> strs]
    ELSE LET held == Borrow(strs, chunk.reader)
             to == SeekStart(chunk.offset)
             s == Content(files, held, chunk.reader)
             size == PosOf(chunk.size)
         IN  IF ~to.ok
                 THEN [res |-> [ok |-> FALSE, err |-> to.err],
                       streams |-> Release(held, chunk.reader)]
             ELSE LET left == IF to.pos >= Len(s) THEN 0 ELSE Len(s) - to.pos
                      n == IF size <= left THEN size ELSE left
                  IN  [res |-> [ok |-> TRUE,
                                val |-> SubSeq(s, to.pos + 1, to.pos + n) \o Zeros(size - n)],
                       streams |-> Release([held EXCEPT ![chunk.reader].pos = to.pos + n],
                                           chunk.reader)]

\* read_file that answers a missing name with an empty buffer.
read_file_empty(m, files, strs, full_file_name) ==
    IF full_file_name \in DOMAIN m.chunks
        THEN data(m.chunks[full_file_name], files, strs)
        ELSE [res |-> [ok |-> TRUE, val |-> <<>>], streams |-> strs]

\* MergeReader::read_file
read_file(m, files, strs, full_file_name) ==
    IF full_file_name \in DOMAIN m.chunks
        THEN data(m.chunks[full_file_name], files, strs)
        ELSE [res |-> [ok |-> FALSE, err |-> "CantBeRead"], streams |-> strs]

\* MergeReader::iter
iter(m) == {<<n, m.chunks[n]>> : n \in DOMAIN m.chunks}

\* Rebase without the segment's base: the chunk's own offset.
Rebase_relative(info, chunk) == [value |-> i32_as_u64(chunk.offset), overflow |-> FALSE]

\* The absolute offsets of a segment's chunks: info.offset + chunk.offset as u64.
Rebase(info, chunk) == u64_add(info.offset, i32_as_u64(chunk.offset))

\* InsertChunks that keeps the entry a name already has (insert only if absent).
InsertChunks_keep(mchunks, chunks, info, reader) ==
    [n \in DOMAIN mchunks \cup DOMAIN chunks |->
        IF n \in DOMAIN mchunks
            THEN mchunks[n]
            ELSE MergedChunk(u64_add(info.offset, i32_as_u64(chunks[n].offset)).value,
                             i32_as_u64(chunks[n].size), reader)]

\* `for (full_file_name, chunk) in chunks.drain() { merge.chunks.insert(..) }`
InsertChunks(mchunks, chunks, info, reader) ==
    [n \in DOMAIN mchunks \cup DOMAIN chunks |->
        IF n \in DOMAIN chunks
            THEN MergedChunk(Rebase(info, chunks[n]).value, i32_as_u64(chunks[n].size), reader)
            ELSE mchunks[n]]

\* `merge.properties.insert(property.key, property.value)` for every property
InsertProperties(mprops, properties) ==
    [k \in DOMAIN mprops \cup DOMAIN properties |->
        IF k \in DOMAIN properties THEN properties[k].value ELSE mprops[k]]

\* `if key.eq("link") { links.push_back(set_file_name(&initial, &property.value).unwrap()) }`
PushLinks(queue, properties, first) ==
    IF LinkKey \in DOMAIN properties
        THEN Append(queue, set_file_name(first, properties[LinkKey].value))
        ELSE queue

\* Propagate that drops the error and goes on with what was loaded.
Propagate_swallow(r, next) ==
    IF r.ok THEN next ELSE IF r.err = "Panic" THEN "panicked" ELSE "insert"

\* Continue that goes round again only with two pending paths.
Continue_two(queue) == Len(queue) > 1

\* The loop condition of merge: `!links.is_empty()`.
Continue(queue) == queue # <<>>

\* The `?` of merge: where a step's result sends the loop.
Propagate(r, next) ==
    IF r.ok THEN next ELSE IF r.err = "Panic" THEN "panicked" ELSE "failed"

\* What merge has returned once a step has run.
Returned(r, old) ==
    IF r.ok \/ r.err = "Panic" THEN old ELSE [ok |-> FALSE, err |-> r.err]

NoResult == [none |-> TRUE]
NoRet == [op |-> "none"]
NoStage == [info |-> <<>>, chunks |-> EmptyMap, properties |-> EmptyMap]

cur == Len(streams)
CurBytes == Content(fs, streams, cur)
CurPos == streams[cur].pos
MovedTo(p) == [streams EXCEPT ![cur].pos = p]

Init ==
    /\ impl \in Impls
    /\ initial \in InitialPaths
    /\ fs = EmptyMap
    /\ pc = "open"
    /\ links = <<initial>>
    /\ calls = <<>>
    /\ streams = <<>>
    /\ stage = NoStage
    /\ merge = [chunks |-> EmptyMap, properties |-> EmptyMap]
    /\ result = NoResult
    /\ ret = NoRet
    /\ fresh = <<>>
    /\ reads = {}

\* `let mut reader = make_reader(links.pop_front().unwrap())?;`
MakeReader ==
    /\ pc = "open"
    /\ Len(calls) < MaxLoads
    /\ LET path == Head(links)
       IN  /\ links' = Tail(links)
           /\ calls' = Append(calls, path)
           /\ \E f \in IF path \in DOMAIN fs THEN {fs[path]} ELSE Files \cup {NoFile} :
                LET r == IF f = NoFile THEN Err("NotFound", 0) ELSE Ok(0, 0)
                IN  /\ fs' = Insert(fs, path, f)
                    /\ streams' = IF r.ok THEN Append(streams, [path |-> path, pos |-> 0, borrowed |-> FALSE])
                                  ELSE streams
                    /\ pc' = Propagate(r, "header")
                    /\ result' = Returned(r, result)
    /\ stage' = NoStage
    /\ UNCHANGED <<impl, initial, merge, ret, fresh, reads>>

\* `read_header(&mut reader)?;`
ReadHeader ==
    /\ pc = "header"
    /\ LET r == read_header(CurBytes, CurPos)
       IN  /\ streams' = MovedTo(r.pos)
           /\ pc' = Propagate(r, "info")
           /\ result' = Returned(r, result)
    /\ UNCHANGED <<impl, initial, fs, links, calls, stage, merge, ret, fresh, reads>>

\* `let info = Info::from(&mut reader)?;` (the footer)
ReadInfo ==
    /\ pc = "info"
    /\ LET r == Info_from(CurBytes, CurPos)
       IN  /\ streams' = MovedTo(r.pos)
           /\ stage' = IF r.ok THEN [stage EXCEPT !.info = r.val] ELSE stage
           /\ pc' = Propagate(r, IF impl = "read" THEN "chunks" ELSE "props")
           /\ result' = Returned(r, result)
    /\ UNCHANGED <<impl, initial, fs, links, calls, merge, ret, fresh, reads>>

\* `let mut chunks = Chunk::read(&mut reader, &info)?;`
ReadChunks ==
    /\ pc = "chunks"
    /\ LET r == Chunk_read(CurBytes, CurPos, stage.info, impl = "read")
       IN  /\ streams' = MovedTo(r.pos)
           /\ stage' = IF r.ok THEN [stage EXCEPT !.chunks = r.val] ELSE stage
           /\ pc' = Propagate(r, IF impl = "read" THEN "props" ELSE "insert")
           /\ result' = Returned(r, result)
    /\ UNCHANGED <<impl, initial, fs, links, calls, merge, ret, fresh, reads>>

\* `let mut properties = Property::read(&mut reader, &info)?;`
ReadProperties ==
    /\ pc = "props"
    /\ LET r == Property_read(CurBytes, CurPos, stage.info, impl = "read")
       IN  /\ streams' = MovedTo(r.pos)
           /\ stage' = IF r.ok THEN [stage EXCEPT !.properties = r.val] ELSE stage
           /\ pc' = Propagate(r, IF impl = "read" THEN "insert" ELSE "chunks")
           /\ result' = Returned(r, result)
    /\ UNCHANGED <<impl, initial, fs, links, calls, merge, ret, fresh, reads>>

\* Whether some `info.offset + chunk.offset as u64` of the segment overflows.
Overflows == \E n \in DOMAIN stage.chunks : Rebase(stage.info, stage.chunks[n]).overflow

\* The two drains and the loop condition `!links.is_empty()`.
InsertTables ==
    /\ pc = "insert"
    /\ \/ \* a build with overflow checks panics on the overflowing sum
          /\ Overflows
          /\ pc' = "panicked"
          /\ UNCHANGED <<links, merge, result, fresh>>
       \/ \* a build without them wraps
          /\ merge' = [chunks |-> InsertChunks(merge.chunks, stage.chunks, stage.info, cur),
                       properties |-> InsertProperties(merge.properties, stage.properties)]
          /\ links' = PushLinks(links, stage.properties, initial)
          /\ pc' = IF Continue(links') THEN "open" ELSE "done"
          /\ result' = IF Continue(links') THEN result ELSE [ok |-> TRUE]
          /\ fresh' = IF Continue(links') THEN fresh ELSE streams
    /\ UNCHANGED <<impl, initial, fs, calls, streams, stage, ret, reads>>

\* A call of read_file on the MergeReader that merge returned.
ReadFile(name) ==
    /\ pc = "done"
    /\ LET r == read_file(merge, fs, streams, name)
       IN  IF ~r.res.ok /\ r.res.err = "Panic"
               THEN /\ pc' = "panicked"
                    /\ UNCHANGED <<streams, ret>>
               ELSE /\ ret' = [op |-> "read_file", name |-> name, res |-> r.res]
                    /\ streams' = r.streams
                    /\ pc' = pc
    /\ reads' = reads \cup {name}
    /\ UNCHANGED <<impl, initial, fs, links, calls, stage, merge, result, fresh>>

\* A call of iter on the MergeReader that merge returned.
Iterate ==
    /\ pc = "done"
    /\ ret' = [op |-> "iter", val |-> iter(merge)]
    /\ UNCHANGED <<impl, initial, fs, pc, links, calls, streams, stage, merge, result, fresh,
                   reads>>

Next ==
    \/ MakeReader
    \/ ReadHeader
    \/ ReadInfo
    \/ ReadChunks
    \/ ReadProperties
    \/ InsertTables
    \/ \E name \in Names : ReadFile(name)
    \/ Iterate

Spec == Init /\ [][Next]_vars

\* The steps of merge.
MergeStep ==
    MakeReader \/ ReadHeader \/ ReadInfo \/ ReadChunks \/ ReadProperties \/ InsertTables

\* merge has a step to take: the guards of the steps of MergeStep.
Running ==
    \/ pc \in {"header", "info", "chunks", "props", "insert"}
    \/ pc = "open" /\ Len(calls) < MaxLoads

\* A step of merge, seen from outside: merge was running and its position moved.
\* Every step of MergeStep moves pc and is taken from a Running state, and no
\* other action is enabled in a Running state, so a step is a MergeAdvances step
\* exactly when it is a MergeStep step.
MergeAdvances ==
    /\ Running
    /\ pc' \in {"open", "header", "info", "chunks", "props", "insert", "done", "failed",
                "panicked"}
    /\ pc' # pc

\* merge is one sequential function: while it has a step to take, it takes it.
FairSpec == Spec /\ WF_pc(MergeAdvances)

(***************************************************************************)
(* What the claims speak of: the segments as their writer described them.  *)
(***************************************************************************)
\* The segment the j-th stream reads.
SegOf(j) == fs[streams[j].path]

\* The footer's counts are those of the tables and the file is whole.
WellFormed(seg) ==
    seg.keep < 0 /\ seg.pcount = Len(seg.props) /\ seg.ccount = Len(seg.chunks)

\* A well-formed segment none of whose offsets and sizes is negative.
Valid(seg) ==
    /\ WellFormed(seg)
    /\ seg.base >= 0
    /\ \A i \in 1..Len(seg.chunks) : seg.chunks[i].offset >= 0 /\ seg.chunks[i].size >= 0

ChunkNames(seg) == {seg.chunks[i].full_file_name : i \in 1..Len(seg.chunks)}
PropertyKeys(seg) == {seg.props[i].key : i \in 1..Len(seg.props)}

\* The last entry of a table under a name (the name occurs in it).
ChunkOf(seg, n) ==
    LET at == {i \in 1..Len(seg.chunks) : seg.chunks[i].full_file_name = n}
    IN  seg.chunks[CHOOSE i \in at : \A j \in at : j <= i]
ValueOf(seg, k) ==
    LET at == {i \in 1..Len(seg.props) : seg.props[i].key = k}
    IN  seg.props[CHOOSE i \in at : \A j \in at : j <= i].value

\* The number of segments whose tables are in the aggregate maps.
Merged == IF pc \in {"open", "done"} THEN cur ELSE 0

\* The last of the first m segments that holds chunk n, property k.
LastWithChunk(m, n) ==
    LET at == {j \in 1..m : n \in ChunkNames(SegOf(j))}
    IN  CHOOSE j \in at : \A i \in at : i <= j
LastWithProperty(m, k) ==
    LET at == {j \in 1..m : k \in PropertyKeys(SegOf(j))}
    IN  CHOOSE j \in at : \A i \in at : i <= j

\* A natural number below 2^31 as a u64.
NatU64(n) == <<0, 0, n \div LimbBase, n % LimbBase>>

(***************************************************************************)
(* C1.                                                                     *)
(***************************************************************************)
HeaderIs21(s, pos) == pos + 2 <= Len(s) /\ s[pos + 1] = 2 /\ s[pos + 2] = 1

\* C1: header validation succeeds if and only if the two bytes at the stream
\* position are 2 then 1; for every other pair, and for a stream that ends before
\* two bytes, merge fails with the corrupt-header error, and the stream of the
\* failed segment is not read again.
C1_HeaderAcceptsOnly21 ==
    [][/\ (pc = "header" /\ pc' # "header") =>
            IF HeaderIs21(CurBytes, CurPos)
                THEN pc' = "info"
                ELSE pc' = "failed" /\ result' = [ok |-> FALSE, err |-> "CorruptedPakHeader"]
       /\ pc = "failed" => streams' = streams]_vars

(***************************************************************************)
(* C2.                                                                     *)
(***************************************************************************)
\* C2: when merge has returned after loading well-formed segments S1 .. Sn, the
\* aggregate chunk map holds exactly the names of the segments' chunk tables, each
\* with the stream of the last segment that holds the name, and the aggregate
\* property map exactly the keys of their property tables, each with the value of
\* the last segment that holds the key.
C2_LastLoadedWins ==
    (pc = "done" /\ \A j \in 1..cur : WellFormed(SegOf(j))) =>
        /\ DOMAIN merge.chunks = UNION {ChunkNames(SegOf(j)) : j \in 1..cur}
        /\ \A n \in DOMAIN merge.chunks :
            LET j == LastWithChunk(cur, n)
            IN  /\ merge.chunks[n].reader = j
                /\ merge.chunks[n].size = i32_as_u64(ChunkOf(SegOf(j), n).size)
        /\ DOMAIN merge.properties = UNION {PropertyKeys(SegOf(j)) : j \in 1..cur}
        /\ \A k \in DOMAIN merge.properties :
            merge.properties[k] = ValueOf(SegOf(LastWithProperty(cur, k)), k)

\* Three segments were merged, and a chunk name and a property key of the first
\* occur again in a later one.
C2_Witness ==
    /\ pc = "done"
    /\ cur = 3
    /\ \A j \in 1..cur : WellFormed(SegOf(j))
    /\ \E n \in ChunkNames(SegOf(1)) : LastWithChunk(cur, n) > 1
    /\ \E k \in PropertyKeys(SegOf(1)) : LastWithProperty(cur, k) > 1

(***************************************************************************)
(* C3.                                                                     *)
(***************************************************************************)
\* The entry the aggregate map is to hold for chunk n of the j-th segment.
Rebased(j, n) ==
    LET c == ChunkOf(SegOf(j), n)
    IN  [offset |-> NatU64(SegOf(j).base + c.offset), size |-> NatU64(c.size), reader |-> j]

\* C3: every chunk-table entry of a valid merged segment that no later segment
\* overwrites is in the aggregate map under its name, with offset Info.offset +
\* chunk.offset, its size, and the stream of its own segment; and for a single
\* valid segment without properties iter yields exactly these entries.
C3_RebasedEntries ==
    /\ \A j \in 1..Merged :
        Valid(SegOf(j)) =>
            \A n \in ChunkNames(SegOf(j)) :
                LastWithChunk(Merged, n) = j =>
                    n \in DOMAIN merge.chunks /\ merge.chunks[n] = Rebased(j, n)
    /\ (ret.op = "iter" /\ cur = 1 /\ Valid(SegOf(1)) /\ SegOf(1).props = <<>>) =>
            ret.val = {<<n, Rebased(1, n)>> : n \in ChunkNames(SegOf(1))}

\* iter was called on the merge of one valid segment with chunks and no property.
C3_Witness ==
    /\ ret.op = "iter"
    /\ cur = 1
    /\ Valid(SegOf(1))
    /\ SegOf(1).props = <<>>
    /\ Cardinality(ret.val) = 2

(***************************************************************************)
(* C4.                                                                     *)
(***************************************************************************)
\* C4: read_file of a name of the aggregate map returns exactly the size bytes of
\* the owning stream from the chunk's absolute offset on, and fails when the
\* stream holds fewer than size bytes from there.
C4_ExactBytesOrError ==
    (ret.op = "read_file" /\ ret.name \in DOMAIN merge.chunks) =>
        LET chunk == merge.chunks[ret.name]
            s == Content(fs, streams, chunk.reader)
            from == PosOf(chunk.offset)
            size == PosOf(chunk.size)
        IN  IF from + size <= Len(s)
                THEN ret.res.ok /\ ret.res.val = SubSeq(s, from + 1, from + size)
                ELSE ~ret.res.ok

(***************************************************************************)
(* C5.                                                                     *)
(***************************************************************************)
\* C5: read_file of a name that is not in the aggregate chunk map returns the
\* not-found error and leaves every stream's position and both maps as they were.
C5_MissingNameTouchesNothing ==
    [][\A name \in Names :
        (name \notin DOMAIN merge.chunks /\ ReadFile(name)) =>
            /\ ret' = [op |-> "read_file", name |-> name,
                       res |-> [ok |-> FALSE, err |-> "CantBeRead"]]
            /\ streams' = streams
            /\ merge' = merge]_vars

\* read_file of a missing name has returned, on a reader one of whose streams an
\* earlier read_file had moved.
C5_Witness ==
    /\ pc = "done"
    /\ ret.op = "read_file"
    /\ ret.name \notin DOMAIN merge.chunks
    /\ \E j \in 1..cur : \E n \in DOMAIN merge.chunks :
        merge.chunks[n].reader = j /\ streams[j].pos = PosOf(merge.chunks[n].offset) + 2

(***************************************************************************)
(* C6.                                                                     *)
(***************************************************************************)
\* path with its file-name component replaced by name: the directory of path (its
\* prefix up to a '/', the rest holding no '/') followed by name.
IsWithFileName(r, path, name) ==
    \E k \in 0..Len(path) :
        /\ k > 0 => <<path[k]>> = Slash
        /\ \A i \in (k + 1)..Len(path) : <<path[i]>> # Slash
        /\ r = SubSeq(path, 1, k) \o name

HasLink(seg) == LinkKey \in PropertyKeys(seg)

\* C6: the first path handed to the stream factory is the initial path, and every
\* later one is the initial path with its file name replaced by the link value of
\* the segment loaded just before (the link value itself when the initial path
\* has no directory).
C6_LinkRelativeToInitial ==
    \A j \in 1..Len(calls) :
        IF j = 1 THEN calls[j] = initial
        ELSE /\ HasLink(fs[calls[j - 1]])
             /\ IsWithFileName(calls[j], initial, ValueOf(fs[calls[j - 1]], LinkKey))

\* From "c/d/A" the chain went to "c/d/e/B" and from there to "c/d/B".
C6_Witness ==
    /\ initial = <<99, 47, 100, 47, 65>>
    /\ Len(calls) >= 3
    /\ calls[2] = <<99, 47, 100, 47, 101, 47, 66>>
    /\ calls[3] = <<99, 47, 100, 47, 66>>

(***************************************************************************)
(* C7.                                                                     *)
(***************************************************************************)
\* C7: no path is handed to the stream factory twice in one merge.
C7_NoSegmentLoadedTwice ==
    \A i, j \in 1..Len(calls) : i # j => calls[i] # calls[j]

(***************************************************************************)
(* C8.                                                                     *)
(***************************************************************************)
\* The result of the step merge is about to take.
StepResult ==
    CASE pc = "header" -> read_header(CurBytes, CurPos)
      [] pc = "info" -> Info_from(CurBytes, CurPos)
      [] pc = "chunks" -> Chunk_read(CurBytes, CurPos, stage.info, impl = "read")
      [] pc = "props" -> Property_read(CurBytes, CurPos, stage.info, impl = "read")
      [] OTHER -> Ok(0, 0)

\* C8: a step of merge that fails (the factory, the header, the footer, a table)
\* makes merge return that error at once; after that the factory is not called
\* again, nothing is merged or read, no MergeReader is there to call, and the
\* failed path was handed to the factory once.
C8_FailFast ==
    [][/\ (pc \in {"header", "info", "chunks", "props"} /\ pc' # pc
            /\ ~StepResult.ok /\ StepResult.err # "Panic") =>
                pc' = "failed" /\ result' = [ok |-> FALSE, err |-> StepResult.err]
       /\ (pc = "open" /\ pc' # pc /\ fs'[Head(links)] = NoFile) =>
                pc' = "failed" /\ result' = [ok |-> FALSE, err |-> "NotFound"]
       /\ pc = "failed" => UNCHANGED vars
       /\ pc' = "failed" =>
            /\ ~result'.ok
            /\ ret' = NoRet
            /\ Cardinality({i \in 1..Len(calls') : calls'[i] = calls'[Len(calls')]}) = 1]_vars

\* The second segment of a chain failed to load after the first was merged.
C8_Witness ==
    /\ pc = "failed"
    /\ Len(calls) = 2
    /\ merge.chunks # EmptyMap
    /\ result = [ok |-> FALSE, err |-> "UnexpectedEof"]

(***************************************************************************)
(* C9.                                                                     *)
(***************************************************************************)
\* The footer declares more properties than the table holds.
MoreDeclared(seg) == seg.keep < 0 /\ seg.pcount > Len(seg.props)

\* C9: a segment whose footer declares more properties than its table holds fails
\* to load with the truncated-stream error: its tables are never merged, and the
\* aggregate property map holds no key that is in no segment's property table.
C9_DeclaredCountTooLarge ==
    /\ \A j \in 1..cur :
        MoreDeclared(SegOf(j)) =>
            /\ j = cur
            /\ \/ pc \in {"header", "info", "chunks", "props"}
               \/ pc = "failed" /\ result = [ok |-> FALSE, err |-> "UnexpectedEof"]
    /\ DOMAIN merge.properties \subseteq UNION {PropertyKeys(SegOf(j)) : j \in 1..cur}

(***************************************************************************)
(* C10.                                                                    *)
(***************************************************************************)
\* Every file the factory has shown is a valid segment with the header (2, 1).
ChainValid ==
    \A p \in DOMAIN fs : fs[p] # NoFile /\ Valid(fs[p]) /\ fs[p].hdr = write_header

\* The path merge is about to open was opened before: the chain has a cycle.
Cyclic == pc = "open" /\ \E i \in 1..Len(calls) : calls[i] = Head(links)

\* C10: merge returns exactly when the loop condition finds the queue empty; it
\* has then loaded one segment per link, in chain order, the last without a link;
\* a chain of valid segments neither fails nor panics, and merge either returns or
\* comes to a path it has opened before; from then on it never returns.
C10_ReturnsWhenQueueEmpty ==
    /\ [][/\ (pc = "insert" /\ pc' \notin {"insert", "panicked"}) =>
                (pc' = "done" <=> links' = <<>>)
          /\ (pc # "done" /\ pc' = "done") => pc = "insert"]_vars
    /\ [](pc = "done" =>
            /\ links = <<>>
            /\ Len(calls) = cur
            /\ \A j \in 1..cur : calls[j] = streams[j].path
            /\ (\A j \in 1..cur : WellFormed(SegOf(j))) =>
                    /\ ~HasLink(SegOf(cur))
                    /\ \A j \in 1..(cur - 1) : HasLink(SegOf(j)))
    /\ [](ChainValid => pc \notin {"failed", "panicked"})
    /\ <>(pc \in {"done", "failed", "panicked"} \/ Cyclic)
    /\ [](Cyclic => [](pc # "done"))

\* merge returned after a chain of three valid segments.
C10_Witness == pc = "done" /\ cur = 3 /\ ChainValid

\* merge came back to a path it had opened before, in a chain of valid segments.
C10_WitnessCycle == Cyclic /\ ChainValid /\ Len(calls) = 2

(***************************************************************************)
(* C11.                                                                    *)
(***************************************************************************)
\* C11: whatever read_file calls came before, a read_file call returns what the
\* same call returns on the reader as merge left it; when it has returned no
\* stream is borrowed; and no call on the reader changes either aggregate map.
C11_ReadsKeepNoState ==
    /\ []((pc = "done" /\ ret.op = "read_file") =>
            /\ ret.res = read_file(merge, fs, fresh, ret.name).res
            /\ \A j \in 1..cur : ~streams[j].borrowed)
    /\ [][pc = "done" => merge' = merge]_vars

\* read_file has returned the bytes of a chunk after a call for another chunk of
\* the same stream and a call that failed, the stream standing elsewhere than
\* where merge left it.
C11_Witness ==
    /\ pc = "done"
    /\ ret.op = "read_file"
    /\ ret.res.ok
    /\ ret.name \in DOMAIN merge.chunks
    /\ \E n \in reads \cap DOMAIN merge.chunks :
        /\ n # ret.name
        /\ merge.chunks[n].reader = merge.chunks[ret.name].reader
        /\ merge.chunks[n].offset # merge.chunks[ret.name].offset
    /\ \E z \in reads : z \notin DOMAIN merge.chunks
    /\ streams # fresh

(***************************************************************************)
(* C12.                                                                    *)
(***************************************************************************)
\* The 4-byte field at the start of the footer of s, read as an unsigned 32-bit
\* integer and promoted to 64 bits.
UnsignedOffsetField(s) ==
    LET at == Len(s) + INFO_OFFSET
    IN  <<0, 0, s[at + 1] * 256 + s[at + 2], s[at + 3] * 256 + s[at + 4]>>

\* u < 2^32 and u < 2^33, for a u64 u.
Below2to32(u) == u[1] = 0 /\ u[2] = 0
Below2to33(u) == u[1] = 0 /\ u[2] <= 1

\* C12: the Info.offset decoded from a footer is the unsigned value of its 4-byte
\* field, so it is below 2^32, and the absolute offset of every chunk whose own
\* offset is not negative is below 2^33.
C12_OffsetIsUnsigned32 ==
    /\ stage.info # <<>> =>
        /\ stage.info.offset = UnsignedOffsetField(CurBytes)
        /\ Below2to32(stage.info.offset)
    /\ pc = "insert" =>
        \A n \in DOMAIN stage.chunks :
            stage.chunks[n].offset >= 0 => Below2to33(Rebase(stage.info, stage.chunks[n]).value)

====
